---- MODULE Spec2Model ----
(***************************************************************************)
(* inkradio: rotary-encoder decoder (knob.py), e-paper display driver      *)
(* (epd2in9.py) and the radio engine loop (radio.py).                      *)
(***************************************************************************)
EXTENDS Integers, Sequences, FiniteSets, TLC

VARIABLES
    \* knob.py : RotaryEncoder
    state,          \* self.state (stored with its direction flag bits)
    trace,          \* pin samples fed to rotary_event since construction
    events,         \* events handed to self.callback, in order
    kerr,           \* TRUE once a table lookup fell outside STATE_TAB
    \* epd2in9.py : Epd
    orientation,    \* self._orientation
    partial_refresh,\* self._partial_refresh : "None" | "True" | "False"
    frame,          \* self._frame : background + painted layers
    dirty,          \* self._dirty : <<xs, ys, xe, ye>>
    portlog,        \* port operations of the most recent Epd call
    lastcall,       \* name of the most recent Epd call
    prevcall,       \* name of the Epd call before it
    txarea,         \* window handed to _send_frame by that call, or <<>>
    ubox,           \* union of the draws' own boxes since the last flush
    port,           \* self._port is a port object (FALSE: None)
    fontpath,       \* self._fontpath is set (FALSE: None)
    opened,         \* the port has been opened by some call
    eerr,           \* the error the most recent Epd call raised, or ""
    shape,          \* endpoints <<xs, ys, xe, ye>> that call handed to
                    \* ImageDraw (rectangle / line), or <<>>
    \* radio.py : Engine, Mpc
    evtque,         \* self._evtque
    evtsig,         \* self._evtsig (set / clear)
    prod,           \* producer callback: "idle" | "appended" (set pending)
    pc,             \* position of Engine.run in its loop
    code,           \* run: code
    action,         \* run: action
    count,          \* run: count
    edit,           \* run: edit
    clearflag,      \* run: clear
    rpos,           \* run: rpos
    radios,         \* run: radios (the deque of positions)
    current,        \* Mpc._current
    calls,          \* Screen / Mpc calls of the latest loop step, in order
    settleq,        \* the queue as counted at the end of the settle sleep
    pre,            \* edit, rpos, Mpc current before the latest loop step
    mpcx,           \* the Mpc.execute call in progress or just returned
    quiet,          \* the knob and the buttons produce no further event
    tick,           \* parity of the clock repaints made since then
    \* kernel_spi.py / ftdi_spi.py : wait_ready
    busy,           \* level of the panel's busy line
    wpc,            \* position of wait_ready: idle | test | sleep | done
    wop,            \* the Epd operation that called wait_until_idle
    polls           \* times wait_ready has found the line busy

kvars == <<state, trace, events, kerr>>
evars == <<orientation, partial_refresh, frame, dirty, portlog, lastcall,
           prevcall, txarea, ubox, port, fontpath, opened, eerr,
           shape>>
gvars == <<evtque, evtsig, prod, pc, code, action, count, edit, clearflag,
           rpos, radios, current, calls, settleq, pre, mpcx, quiet, tick>>
wvars == <<busy, wpc, wop, polls>>

\* ----------------------------------------------------------------------
\* Bounds of the model
\* ----------------------------------------------------------------------
MaxSamples == 6
MaxDraws == 2
MaxQueue == 2
NRadios == 2
MaxAttempts == 3
MaxPolls == 6

\* ----------------------------------------------------------------------
\* knob.py
\* ----------------------------------------------------------------------
DIR_NONE == 0
DIR_CW == 16
DIR_CCW == 32

R_START == 0
R_CW_FINAL == 1
R_CW_BEGIN == 2
R_CW_NEXT == 3
R_CCW_BEGIN == 4
R_CCW_FINAL == 5
R_CCW_NEXT == 6

CLOCKWISE == 1
ANTICLOCKWISE == 2
BUTTONDOWN == 3
BUTTONUP == 4

\* FULL_TAB with the transition Start --11--> Start replaced by a
\* transition that reports a clockwise step.
FULL_TAB_JumpEmits ==
    << <<R_START,    R_CW_BEGIN,  R_CCW_BEGIN, R_START + DIR_CW>>,
       <<R_CW_NEXT,  R_START,     R_CW_FINAL,  R_START + DIR_CW>>,
       <<R_CW_NEXT,  R_CW_BEGIN,  R_START,     R_START>>,
       <<R_CW_NEXT,  R_CW_BEGIN,  R_CW_FINAL,  R_START>>,
       <<R_CCW_NEXT, R_START,     R_CCW_BEGIN, R_START>>,
       <<R_CCW_NEXT, R_CCW_FINAL, R_START,     R_START + DIR_CCW>>,
       <<R_CCW_NEXT, R_CCW_FINAL, R_CCW_BEGIN, R_START>> >>

\* FULL_TAB with the return R_CW_BEGIN --11--> Start (the contact falling
\* back before the second one closes) replaced by a transition that
\* reports a clockwise step.
FULL_TAB_BounceEmits ==
    << <<R_START,    R_CW_BEGIN,  R_CCW_BEGIN, R_START>>,
       <<R_CW_NEXT,  R_START,     R_CW_FINAL,  R_START + DIR_CW>>,
       <<R_CW_NEXT,  R_CW_BEGIN,  R_START,     R_START + DIR_CW>>,
       <<R_CW_NEXT,  R_CW_BEGIN,  R_CW_FINAL,  R_START>>,
       <<R_CCW_NEXT, R_START,     R_CCW_BEGIN, R_START>>,
       <<R_CCW_NEXT, R_CCW_FINAL, R_START,     R_START + DIR_CCW>>,
       <<R_CCW_NEXT, R_CCW_FINAL, R_CCW_BEGIN, R_START>> >>

\* Rows are states, columns the pin sample 00, 01, 10, 11.
FULL_TAB ==
    << <<R_START,    R_CW_BEGIN,  R_CCW_BEGIN, R_START>>,
       <<R_CW_NEXT,  R_START,     R_CW_FINAL,  R_START + DIR_CW>>,
       <<R_CW_NEXT,  R_CW_BEGIN,  R_START,     R_START>>,
       <<R_CW_NEXT,  R_CW_BEGIN,  R_CW_FINAL,  R_START>>,
       <<R_CCW_NEXT, R_START,     R_CCW_BEGIN, R_START>>,
       <<R_CCW_NEXT, R_CCW_FINAL, R_START,     R_START + DIR_CCW>>,
       <<R_CCW_NEXT, R_CCW_FINAL, R_CCW_BEGIN, R_START>> >>

\* HALF_STEP = False selects FULL_TAB.
STATE_TAB == FULL_TAB

\* self.state & 0xf without the mask
And0F_NoMask(x) == x

\* x & 0xf and x & 0x30 on the non-negative table values.
And0F(x) == x % 16
And30(x) == ((x \div 16) % 4) * 16

\* pinstate = (GPIO.input(pin_b) << 1) | GPIO.input(pin_a)
PinState(pin_a, pin_b) == pin_b * 2 + pin_a

\* STATE_TAB[self.state & 0xf][pinstate]; an index outside the table is an
\* IndexError.
InTable(st, pinstate) ==
    /\ And0F(st) + 1 \in DOMAIN STATE_TAB
    /\ pinstate + 1 \in DOMAIN STATE_TAB[And0F(st) + 1]

\* the table entry stored with its direction flag cleared
TabLookup_Cleared(st, pinstate) ==
    STATE_TAB[And0F(st) + 1][pinstate + 1] % 16

TabLookup(st, pinstate) == STATE_TAB[And0F(st) + 1][pinstate + 1]

\* event = self.CLOCKWISE if result == 32 else self.ANTICLOCKWISE
EventOf(result) == IF result = 32 THEN CLOCKWISE ELSE ANTICLOCKWISE

\* The decoder as a function of a whole sample sequence: the state and the
\* events after feeding seq to rotary_event starting in state st.
RECURSIVE Feed(_, _, _)
Feed(st, evs, seq) ==
    IF seq = <<>> THEN [state |-> st, events |-> evs]
    ELSE LET nst == TabLookup(st, Head(seq))
             res == And30(nst)
         IN  Feed(nst,
                  IF res # 0 THEN Append(evs, EventOf(res)) ELSE evs,
                  Tail(seq))

\* RotaryEncoder.__init__
RotaryEncoderInit ==
    /\ trace # <<>>
    /\ state' = R_START
    /\ trace' = <<>>
    /\ events' = <<>>
    /\ kerr' = FALSE
    /\ UNCHANGED <<evars, gvars, wvars>>

\* RotaryEncoder.rotary_event
rotary_event(pin_a, pin_b) ==
    LET pinstate == PinState(pin_a, pin_b) IN
    /\ Len(trace) < MaxSamples
    /\ ~kerr
    /\ trace' = Append(trace, pinstate)
    /\ IF InTable(state, pinstate)
       THEN LET nst == TabLookup(state, pinstate)
                result == And30(nst)
            IN  /\ state' = nst
                /\ events' = IF result # 0
                             THEN Append(events, EventOf(result))
                             ELSE events
                /\ kerr' = FALSE
       ELSE /\ kerr' = TRUE
            /\ UNCHANGED <<state, events>>
    /\ UNCHANGED <<evars, gvars, wvars>>

\* ----------------------------------------------------------------------
\* epd2in9.py : constants
\* ----------------------------------------------------------------------
WIDTH == 128
HEIGHT == 296
WHITE == 255
BLACK == 0

DRIVER_OUTPUT_CONTROL == 1
BOOSTER_SOFT_START_CONTROL == 12
DEEP_SLEEP_MODE == 16
DATA_ENTRY_MODE_SETTING == 17
MASTER_ACTIVATION == 32
DISPLAY_UPDATE_CONTROL_2 == 34
WRITE_RAM == 36
WRITE_VCOM_REGISTER == 44
WRITE_LUT_REGISTER == 50
SET_DUMMY_LINE_PERIOD == 58
SET_GATE_TIME == 59
SET_RAM_X_ADDRESS_START_END_POSITION == 68
SET_RAM_Y_ADDRESS_START_END_POSITION == 69
SET_RAM_X_ADDRESS_COUNTER == 78
SET_RAM_Y_ADDRESS_COUNTER == 79
TERMINATE_FRAME_READ_WRITE == 255

LUT_FULL_UPDATE ==
    <<2, 2, 1, 17, 18, 18, 34, 34, 102, 105, 105, 89,
      88, 153, 153, 136, 0, 0, 0, 0, 248, 180, 19, 81,
      53, 81, 81, 25, 1, 0>>

LUT_PARTIAL_UPDATE ==
    <<16, 24, 24, 8, 24, 24, 8, 0, 0, 0, 0, 0,
      0, 0, 0, 0, 0, 0, 0, 0, 19, 20, 68, 18,
      0, 0, 0, 0, 0, 0>>

\* ----------------------------------------------------------------------
\* Python integer helpers
\* ----------------------------------------------------------------------
Min2(a, b) == IF a <= b THEN a ELSE b
Max2(a, b) == IF a >= b THEN a ELSE b

\* x & ~(8-1), also for negative x (two's complement semantics of Python)
AndNot7(x) == x - (x % 8)
\* x & 0xFF, (x >> 8) & 0xFF, (x >> 3) & 0xFF
And255(x) == x % 256
Shr8And255(x) == (x \div 256) % 256
Shr3And255(x) == (x \div 8) % 256

\* ----------------------------------------------------------------------
\* The port: operations recorded in call order.  arg is the byte sequence
\* written (empty for open / reset / wait_ready).
\* ----------------------------------------------------------------------
\* buf is the buffer of _build when that is what is written (see NoBuf).
PortOpen == [op |-> "open", arg |-> <<>>, buf |-> <<>>]
PortReset == [op |-> "reset", arg |-> <<>>, buf |-> <<>>]
PortWait == [op |-> "wait", arg |-> <<>>, buf |-> <<>>]
\* Epd._send_command / Epd._send_data
send_command(command) == [op |-> "cmd", arg |-> <<command>>, buf |-> <<>>]
send_data(data) == [op |-> "data", arg |-> data, buf |-> <<>>]
\* Epd._send_data with the buffer of _build
send_buffer(buf) == [op |-> "data", arg |-> <<>>, buf |-> <<buf>>]

\* ----------------------------------------------------------------------
\* The frame: a background value and the painted layers, oldest first.
\* A layer is a box of the image with a fill pattern.
\* ----------------------------------------------------------------------
SENTINEL == <<WIDTH, HEIGHT, 0, 0>>
FULLBOX == <<0, 0, WIDTH, HEIGHT>>

NewFrame == [bg |-> WHITE, layers |-> <<>>]

Fill(black) == IF black THEN BLACK ELSE WHITE

\* Pixel value of a fill pattern at (x, y).  "glyph" stands for the
\* rasterised text image (ink on paper), "glyph_inv" for inverted text.
PatValue(pat, x, y) ==
    CASE pat = "black" -> BLACK
      [] pat = "white" -> WHITE
      [] pat = "glyph" -> IF (x + y) % 2 = 0 THEN BLACK ELSE WHITE
      [] pat = "glyph_inv" -> IF (x + y) % 2 = 0 THEN WHITE ELSE BLACK

Covers(l, x, y) == l.xs <= x /\ x <= l.xe /\ l.ys <= y /\ y <= l.ye

RECURSIVE LayerValue(_, _, _, _, _)
LayerValue(layers, i, bg, x, y) ==
    IF i = 0 THEN bg
    ELSE IF Covers(layers[i], x, y) THEN PatValue(layers[i].pat, x, y)
    ELSE LayerValue(layers, i - 1, bg, x, y)

\* Value of image pixel (x, y), 0 <= x < WIDTH, 0 <= y < HEIGHT
PixelAt(frm, x, y) == LayerValue(frm.layers, Len(frm.layers), frm.bg, x, y)

\* pixels[x, y] of the PIL pixel-access object: a negative index counts
\* from the far edge.
PixelAccess(frm, x, y) ==
    PixelAt(frm, IF x < 0 THEN x + WIDTH ELSE x,
                 IF y < 0 THEN y + HEIGHT ELSE y)

\* ----------------------------------------------------------------------
\* epd2in9.py : geometry of the drawing primitives.  w, h are the image
\* size (WIDTH, HEIGHT); o is self._orientation.
\* ----------------------------------------------------------------------
\* if v < 0: v = 0 / elif v > hi: v = hi
Clamp(v, hi) == IF v < 0 THEN 0 ELSE IF v > hi THEN hi ELSE v

\* Epd.rectangle, lines 151-181: the physical box <<xs, ys, xe, ye>>
RectBox(o, x1, y1, x2, y2) ==
    LET w == WIDTH
        h == HEIGHT
        cx1 == Clamp(x1, h)
        cx2 == Clamp(x2, h)
        sx1 == Min2(cx1, cx2)
        sx2 == Max2(cx1, cx2)
        cy1 == Clamp(y1, w)
        cy2 == Clamp(y2, w)
        sy1 == Min2(cy1, cy2)
        sy2 == Max2(cy1, cy2)
    IN  IF ~o THEN <<w - sy2, sx1, w - sy1, sx2>>
        ELSE <<sy1, h - sx2, sy2, h - sx1>>

\* Epd.hline, line 191: the early return
HlineSkips(ly) == ly < 0 \/ ly >= WIDTH

\* Epd.hline, lines 193-214: the stroke <<xs, ys, ye>> (drawn from
\* (xs, ys) to (xs, ye))
HlineGeom(o, lx, ly, length) ==
    LET w == WIDTH
        h == HEIGHT
        ys0 == IF lx < 0 THEN 0 ELSE IF lx > h THEN h - 1 ELSE lx
        xs0 == IF ly < 0 THEN w - 1 ELSE IF ly > w THEN 0 ELSE ly
    IN  IF ~o
        THEN LET ye0 == ys0 + length
             IN  <<w - 1 - xs0, ys0, IF ye0 >= h THEN h - 1 ELSE ye0>>
        ELSE LET ye == h - 1 - ys0
                 ys1 == ye - length
             IN  <<xs0, IF ys1 < 0 THEN 0 ELSE ys1, ye>>

\* Epd.hline, lines 219-220: the box merged into the dirty region
HlineBox(g, width) ==
    <<g[1] - (width \div 2), g[2], g[1] + ((width + 1) \div 2), g[3]>>

\* Epd.vline, line 224: the early return
VlineSkips(lx) == lx < 0 \/ lx >= HEIGHT

\* Epd.vline, lines 226-247: the stroke <<xs, ys, xe>> (drawn from
\* (xs, ys) to (xe, ys))
VlineGeom(o, lx, ly, length) ==
    LET w == WIDTH
        h == HEIGHT
        xs0 == IF ly < 0 THEN 0 ELSE IF ly > w THEN w - 1 ELSE ly
        ys0 == IF lx < 0 THEN h - 1 ELSE IF lx > h THEN 0 ELSE lx
    IN  IF o
        THEN LET xe0 == xs0 + length
             IN  <<xs0, h - 1 - ys0, IF xe0 >= w THEN w - 1 ELSE xe0>>
        ELSE LET xe == w - 1 - xs0
                 xs1 == xe - length
             IN  <<IF xs1 < 0 THEN 0 ELSE xs1, ys0, xe>>

\* Epd.vline, lines 252-253: the box merged into the dirty region
VlineBox(g, width) ==
    <<g[1], Max2(0, g[2] - (width \div 2)),
      g[3], Min2(g[2] + ((width + 1) \div 2), HEIGHT)>>

\* Epd.text, lines 264-271: paste position and size of the rotated glyph
\* image; tw x th is the size of the rasterised text before rotation.
TextGeom(o, tx, ty, tw, th) ==
    LET iw == WIDTH
        ih == HEIGHT
        fw == th
        fh == tw
    IN  IF ~o THEN [x |-> iw - ty - th, y |-> tx, fw |-> fw, fh |-> fh]
        ELSE [x |-> ty, y |-> ih - tx - tw, fw |-> fw, fh |-> fh]

\* min/max merge of lines 185-187, 218-220, 251-253
MergeDirty(d, b) ==
    <<Min2(d[1], b[1]), Min2(d[2], b[2]), Max2(d[3], b[3]), Max2(d[4], b[4])>>

\* Epd.text, lines 274-278: merge, then clamp the running region
TextDirty(d, g) ==
    <<Max2(Min2(d[1], g.x), 0),
      Max2(Min2(d[2], g.y), 0),
      Min2(Max2(d[3], g.x + g.fw), WIDTH),
      Min2(Max2(d[4], g.y + g.fh), HEIGHT)>>

\* ----------------------------------------------------------------------
\* Union of the draws' own boxes (the running region the dirty box is
\* meant to equal); <<>> is the empty union.
\* ----------------------------------------------------------------------
UnionBox(u, b) ==
    IF u = <<>> THEN b
    ELSE <<Min2(u[1], b[1]), Min2(u[2], b[2]), Max2(u[3], b[3]), Max2(u[4], b[4])>>

ClampC(v, hi) == IF v < 0 THEN 0 ELSE IF v > hi THEN hi ELSE v

\* The part of the pasted glyph image's box that lies on the canvas
TextOwnBox(g) ==
    <<ClampC(g.x, WIDTH), ClampC(g.y, HEIGHT),
      ClampC(g.x + g.fw, WIDTH), ClampC(g.y + g.fh, HEIGHT)>>

\* ----------------------------------------------------------------------
\* epd2in9.py : Epd._build
\* ----------------------------------------------------------------------
\* reduce(lambda byte, bit: byte << 1 | bit, bits) over a list of bits,
\* with the bits packed the other way round (first pixel in bit 0).
RECURSIVE Reduce_LsbFirst(_)
Reduce_LsbFirst(bits) ==
    IF Len(bits) = 1 THEN bits[1]
    ELSE bits[1] + 2 * Reduce_LsbFirst(Tail(bits))

RECURSIVE ReduceFrom(_, _, _)
ReduceFrom(byte, bits, i) ==
    IF i > Len(bits) THEN byte
    ELSE ReduceFrom(byte * 2 + bits[i], bits, i + 1)

\* reduce(lambda byte, bit: byte << 1 | bit, bits): the first element
\* seeds the accumulator, every further bit is shifted in from the right.
Reduce(bits) == ReduceFrom(bits[1], bits, 2)

\* [pixels[wix+ix, hix] & 1 for ix in range(8)]
Bits8(frm, wix, hix) ==
    [ix \in 1..8 |-> PixelAccess(frm, wix + ix - 1, hix) % 2]

\* Alignment of the X extent, lines 313-316, with xe left unaligned.
AlignX_NoRoundUp(xs, xe) == <<AndNot7(xs), xe>>

\* Alignment of the X extent, lines 313-316
AlignX(xs, xe) ==
    LET axe == AndNot7(xe + (8 - 1)) - 1
    IN  <<AndNot7(xs), IF axe >= WIDTH THEN WIDTH - 1 ELSE axe>>

\* len(range(a, b, step)) for step > 0
RangeLen(a, b, step) == IF b > a THEN (b - a + step - 1) \div step ELSE 0

\* The byte buffer _build fills, kept as what determines it: the image it
\* was packed from, the first pixel column and row, and the number of
\* bytes per row and of rows.  BufByte gives its bytes.
NoBuf == [frm |-> NewFrame, xs |-> 0, ys |-> 0, cols |-> 0, rows |-> 0]

\* len(buf)
BufLen(buf) == buf.rows * buf.cols

\* buf[i-1]: the loops of lines 322-326 append row by row (hix ascending),
\* within a row one byte per 8 pixel columns (wix ascending).
BufByte(buf, i) ==
    Reduce(Bits8(buf.frm,
                 buf.xs + 8 * ((i - 1) % buf.cols),
                 buf.ys + ((i - 1) \div buf.cols)))

\* Epd._build: data is the byte buffer (NoBuf also stands for None),
\* area the window <<xs, ys, xe, ye>>, noop the early return of line 312.
build(frm, d) ==
    LET xs == d[1]
        ys == d[2]
        xe == d[3]
        ye == d[4]
    IN  IF (xe - xs <= 0) /\ (ys - ye <= 0)
        THEN [data |-> NoBuf, area |-> <<>>, noop |-> TRUE]
        ELSE LET ax == AlignX(xs, xe)
                 aye == IF ye >= HEIGHT THEN HEIGHT - 1 ELSE ye
                 rows == RangeLen(ys, aye + 1, 1)
                 cols == RangeLen(ax[1], ax[2] + 1, 8)
             IN  [data |-> IF rows * cols = 0 THEN NoBuf
                           ELSE [frm |-> frm, xs |-> ax[1], ys |-> ys,
                                 cols |-> cols, rows |-> rows],
                  area |-> <<ax[1], ys, ax[2], aye>>,
                  noop |-> FALSE]

\* ----------------------------------------------------------------------
\* epd2in9.py : port traffic of the refresh path
\* ----------------------------------------------------------------------
\* Epd._set_memory_area
set_memory_area(x_start, y_start, x_end, y_end) ==
    << send_command(SET_RAM_X_ADDRESS_START_END_POSITION),
       send_data(<<Shr3And255(x_start), Shr3And255(x_end)>>),
       send_command(SET_RAM_Y_ADDRESS_START_END_POSITION),
       send_data(<<And255(y_start), Shr8And255(y_start),
                   And255(y_end), Shr8And255(y_end)>>) >>

\* Epd._set_memory_pointer
set_memory_pointer(x, y) ==
    << send_command(SET_RAM_X_ADDRESS_COUNTER),
       send_data(<<Shr3And255(x)>>),
       send_command(SET_RAM_Y_ADDRESS_COUNTER),
       send_data(<<And255(y), Shr8And255(y)>>),
       PortWait >>

\* Epd._send_frame
send_frame(data, area) ==
    set_memory_area(area[1], area[2], area[3], area[4])
    \o set_memory_pointer(area[1], area[2])
    \o << send_command(WRITE_RAM), send_buffer(data) >>

\* Epd._display_frame without the MASTER_ACTIVATION command
display_frame_NoActivation ==
    << send_command(DISPLAY_UPDATE_CONTROL_2),
       send_data(<<196>>),
       send_command(TERMINATE_FRAME_READ_WRITE),
       PortWait >>

\* Epd._display_frame
display_frame ==
    << send_command(DISPLAY_UPDATE_CONTROL_2),
       send_data(<<196>>),
       send_command(MASTER_ACTIVATION),
       send_command(TERMINATE_FRAME_READ_WRITE),
       PortWait >>

\* Epd.refresh with the second transmission left out.
RefreshOps_SendOnce(partial, data, area) ==
    send_frame(data, area) \o display_frame

\* Epd.refresh with the dirty region left as it was after a flush.
DirtyAfterFlush_Keep(d) == d

\* Epd.refresh with the second transmission made in every mode.
RefreshOps_SendTwice(partial, data, area) ==
    send_frame(data, area) \o display_frame \o send_frame(data, area)

\* Epd.refresh with the dirty region zeroed after a flush.
DirtyAfterFlush_Zero(d) == <<0, 0, 0, 0>>

\* Epd.refresh with the frame displayed only after the last transmission.
RefreshOps_CommitLast(partial, data, area) ==
    send_frame(data, area)
    \o (IF partial = "True" THEN send_frame(data, area) ELSE <<>>)
    \o display_frame

\* Epd.refresh, lines 138-141: the port traffic of a refresh that has data
RefreshOps(partial, data, area) ==
    send_frame(data, area)
    \o display_frame
    \o (IF partial = "True" THEN send_frame(data, area) ELSE <<>>)

\* Epd.refresh, line 142
DirtyAfterFlush(d) == SENTINEL

\* ----------------------------------------------------------------------
\* epd2in9.py : the Epd calls
\* ----------------------------------------------------------------------
\* A layer painted over the frame; layers it hides completely are dropped
\* (the image is the same).
PaintOver(frm, xs, ys, xe, ye, pat) ==
    LET Shows(l) == ~(xs <= l.xs /\ l.xe <= xe /\ ys <= l.ys /\ l.ye <= ye)
    IN  [frm EXCEPT !.layers =
            Append(SelectSeq(@, Shows),
                   [xs |-> xs, ys |-> ys, xe |-> xe, ye |-> ye, pat |-> pat])]

Called(name) ==
    /\ prevcall' = lastcall
    /\ lastcall' = name
    /\ txarea' = <<>>

\* Epd.init, lines 109-110, with the full-update table in every mode
SelectLut_AlwaysFull(partial) == LUT_FULL_UPDATE

\* Epd.init, lines 109-110:
\* not partial_refresh and self.LUT_FULL_UPDATE or self.LUT_PARTIAL_UPDATE
\* (a and b or c is b when a holds and b is not empty, else c)
SelectLut(partial) ==
    IF ~partial /\ LUT_FULL_UPDATE # <<>>
    THEN LUT_FULL_UPDATE ELSE LUT_PARTIAL_UPDATE

\* Epd.init, lines 93-110: the port traffic
InitOps(partial) ==
    << PortOpen, PortReset,
       send_command(DRIVER_OUTPUT_CONTROL),
       send_data(<<And255(HEIGHT - 1), Shr8And255(HEIGHT - 1), 0>>),
       send_command(BOOSTER_SOFT_START_CONTROL),
       send_data(<<215, 214, 157>>),
       send_command(WRITE_VCOM_REGISTER),
       send_data(<<168>>),
       send_command(SET_DUMMY_LINE_PERIOD),
       send_data(<<26>>),
       send_command(SET_GATE_TIME),
       send_data(<<8>>),
       send_command(DATA_ENTRY_MODE_SETTING),
       send_data(<<3>>),
       send_command(WRITE_LUT_REGISTER),
       send_data(SelectLut(partial)) >>

\* Epd.init with the port check left out.
NoPort_Unchecked(p) == FALSE

\* Epd.init, line 91: if not self._port
NoPort(p) == ~p

\* Epd._create_font with the font path check left out.
FontMissing_Unchecked(fp) == FALSE

\* Epd._create_font, line 301: if not self._fontpath (the fonts are
\* created from the font path, so none is cached while it is unset)
FontMissing(fp) == ~fp

\* Epd.init
epd_init(partial) ==
    /\ Called("init")
    /\ shape' = <<>>
    /\ IF NoPort(port)
       THEN \* lines 91-92: raise IOError('No port')
            /\ eerr' = "IOError"
            /\ portlog' = <<>>
            /\ UNCHANGED <<partial_refresh, opened>>
       ELSE /\ eerr' = ""
            /\ portlog' = InitOps(partial)
            /\ partial_refresh' = IF partial THEN "True" ELSE "False"
            /\ opened' = TRUE
    /\ UNCHANGED <<orientation, frame, dirty, ubox, port, fontpath>>
    /\ UNCHANGED <<kvars, gvars, wvars>>

\* Epd.sleep
sleep ==
    /\ Called("sleep")
    /\ shape' = <<>>
    /\ IF ~port
       THEN portlog' = <<>> /\ eerr' = "AttributeError"
       ELSE portlog' = <<send_command(DEEP_SLEEP_MODE), PortWait>> /\ eerr' = ""
    /\ UNCHANGED <<orientation, partial_refresh, frame, dirty, ubox, port,
                   fontpath, opened>>
    /\ UNCHANGED <<kvars, gvars, wvars>>

\* Epd.reset
reset ==
    /\ Called("reset")
    /\ shape' = <<>>
    /\ IF ~port
       THEN portlog' = <<>> /\ eerr' = "AttributeError"
       ELSE portlog' = <<PortReset>> /\ eerr' = ""
    /\ UNCHANGED <<orientation, partial_refresh, frame, dirty, ubox, port,
                   fontpath, opened>>
    /\ UNCHANGED <<kvars, gvars, wvars>>

\* Epd.set_fontpath; exists is isfile(path)
set_fontpath(exists) ==
    /\ Called("set_fontpath")
    /\ shape' = <<>>
    /\ portlog' = <<>>
    /\ IF ~exists
       THEN eerr' = "ValueError" /\ UNCHANGED fontpath
       ELSE eerr' = "" /\ fontpath' = TRUE
    /\ UNCHANGED <<orientation, partial_refresh, frame, dirty, ubox, port,
                   opened>>
    /\ UNCHANGED <<kvars, gvars, wvars>>

\* Epd.clear, also dropping the session's refresh mode.
clear_DropsMode(black) ==
    /\ Called("clear")
    /\ shape' = <<>>
    /\ frame' = [bg |-> Fill(black), layers |-> <<>>]
    /\ dirty' = <<0, 0, WIDTH, HEIGHT>>
    /\ ubox' = <<0, 0, WIDTH, HEIGHT>>
    /\ portlog' = <<>>
    /\ eerr' = ""
    /\ partial_refresh' = "None"
    /\ UNCHANGED <<orientation, port, fontpath, opened>>
    /\ UNCHANGED <<kvars, gvars, wvars>>

\* Epd.clear
clear(black) ==
    /\ Called("clear")
    /\ shape' = <<>>
    /\ frame' = [bg |-> Fill(black), layers |-> <<>>]
    /\ dirty' = <<0, 0, WIDTH, HEIGHT>>
    /\ ubox' = <<0, 0, WIDTH, HEIGHT>>
    /\ portlog' = <<>>
    /\ eerr' = ""
    /\ UNCHANGED <<orientation, partial_refresh, port, fontpath, opened>>
    /\ UNCHANGED <<kvars, gvars, wvars>>

\* Epd.rectangle
rectangle(x1, y1, x2, y2, black) ==
    LET b == RectBox(orientation, x1, y1, x2, y2) IN
    /\ Len(frame.layers) < MaxDraws
    /\ Called("rectangle")
    /\ shape' = b
    /\ frame' = PaintOver(frame, b[1], b[2], b[3], b[4],
                          IF black THEN "black" ELSE "white")
    /\ dirty' = MergeDirty(dirty, b)
    /\ ubox' = UnionBox(ubox, b)
    /\ portlog' = <<>>
    /\ eerr' = ""
    /\ UNCHANGED <<orientation, partial_refresh, port, fontpath, opened>>
    /\ UNCHANGED <<kvars, gvars, wvars>>

\* Epd.hline
hline(lx, ly, length, width, black) ==
    /\ Len(frame.layers) < MaxDraws
    /\ Called("hline")
    /\ portlog' = <<>>
    /\ IF HlineSkips(ly)
       THEN shape' = <<>> /\ UNCHANGED <<frame, dirty, ubox>>
       ELSE LET g == HlineGeom(orientation, lx, ly, length)
                b == HlineBox(g, width)
                left == g[1] - (width \div 2)
            IN  /\ shape' = <<g[1], g[2], g[1], g[3]>>
                /\ frame' = PaintOver(frame, left, Min2(g[2], g[3]),
                                      left + width - 1, Max2(g[2], g[3]),
                                      IF black THEN "black" ELSE "white")
                /\ dirty' = MergeDirty(dirty, b)
                /\ ubox' = UnionBox(ubox, b)
    /\ eerr' = ""
    /\ UNCHANGED <<orientation, partial_refresh, port, fontpath, opened>>
    /\ UNCHANGED <<kvars, gvars, wvars>>

\* Epd.vline
vline(lx, ly, length, width, black) ==
    /\ Len(frame.layers) < MaxDraws
    /\ Called("vline")
    /\ portlog' = <<>>
    /\ IF VlineSkips(lx)
       THEN shape' = <<>> /\ UNCHANGED <<frame, dirty, ubox>>
       ELSE LET g == VlineGeom(orientation, lx, ly, length)
                b == VlineBox(g, width)
                top == g[2] - (width \div 2)
            IN  /\ shape' = <<g[1], g[2], g[3], g[2]>>
                /\ frame' = PaintOver(frame, Min2(g[1], g[3]), top,
                                      Max2(g[1], g[3]), top + width - 1,
                                      IF black THEN "black" ELSE "white")
                /\ dirty' = MergeDirty(dirty, b)
                /\ ubox' = UnionBox(ubox, b)
    /\ eerr' = ""
    /\ UNCHANGED <<orientation, partial_refresh, port, fontpath, opened>>
    /\ UNCHANGED <<kvars, gvars, wvars>>

\* Epd.text; tw x th is the size of the rasterised text
text(tx, ty, tw, th, black) ==
    LET g == TextGeom(orientation, tx, ty, tw, th) IN
    /\ Len(frame.layers) < MaxDraws
    /\ Called("text")
    /\ shape' = <<>>
    /\ portlog' = <<>>
    /\ IF FontMissing(fontpath)
       THEN \* lines 256-257, 301-302: raise RuntimeError('Font not defined')
            /\ eerr' = "RuntimeError"
            /\ UNCHANGED <<frame, dirty, ubox>>
       ELSE /\ eerr' = ""
            /\ frame' = PaintOver(frame, g.x, g.y,
                                  g.x + g.fw - 1, g.y + g.fh - 1,
                                  IF black THEN "glyph" ELSE "glyph_inv")
            /\ dirty' = TextDirty(dirty, g)
            /\ ubox' = UnionBox(ubox, TextOwnBox(g))
    /\ UNCHANGED <<orientation, partial_refresh, port, fontpath, opened>>
    /\ UNCHANGED <<kvars, gvars, wvars>>

\* Epd.refresh
refresh(full) ==
    LET d1 == IF full THEN <<0, 0, WIDTH, HEIGHT>> ELSE dirty
        b == build(frame, d1)
    IN  /\ prevcall' = lastcall
        /\ lastcall' = IF full THEN "refresh_full" ELSE "refresh"
        /\ shape' = <<>>
        /\ IF BufLen(b.data) = 0
           THEN /\ dirty' = d1
                /\ portlog' = <<>>
                /\ txarea' = <<>>
                /\ eerr' = ""
                /\ UNCHANGED ubox
           ELSE IF ~port
           THEN \* line 138: the first write on None raises
                /\ dirty' = d1
                /\ portlog' = <<>>
                /\ txarea' = <<>>
                /\ eerr' = "AttributeError"
                /\ UNCHANGED ubox
           ELSE /\ portlog' = RefreshOps(partial_refresh, b.data, b.area)
                /\ txarea' = b.area
                /\ dirty' = DirtyAfterFlush(d1)
                /\ eerr' = ""
                /\ ubox' = <<>>
        /\ UNCHANGED <<orientation, partial_refresh, frame, port, fontpath,
                       opened>>
        /\ UNCHANGED <<kvars, gvars, wvars>>

\* ----------------------------------------------------------------------
\* kernel_spi.py / ftdi_spi.py : wait_ready, and its callers in epd2in9.py
\* ----------------------------------------------------------------------
WaitInit ==
    /\ busy = FALSE
    /\ wpc = "idle"
    /\ wop = ""
    /\ polls = 0

\* the Epd operations that end with self.wait_until_idle()
\* (epd2in9.py lines 129, 354, 370)
WaitingOps == {"sleep", "set_memory_pointer", "display_frame"}

\* wait_ready giving up after two polls
StillBusy_Timeout(level, n) == level /\ n < 2

\* wait_ready, line 67: while GPIO.input(self.BUSY_PIN)
\* (ftdi_spi.py line 65: while self._io_port.read() & self.BUSY_PIN);
\* the number of polls made so far plays no part
StillBusy(level, n) == level

\* Epd.wait_until_idle, lines 116-117, called by op: wait_ready starts
wait_until_idle(op) ==
    /\ wpc \in {"idle", "done"}
    /\ wop' = op
    /\ wpc' = "test"
    /\ polls' = 0
    /\ UNCHANGED busy
    /\ UNCHANGED <<kvars, evars, gvars>>

\* wait_ready, lines 67 and 70: the busy line is sampled; the loop goes
\* on to its sleep or wait_ready returns.  polls stops counting at
\* MaxPolls, the loop does not stop.
wait_test ==
    /\ wpc = "test"
    /\ IF StillBusy(busy, polls)
       THEN /\ wpc' = "sleep"
            /\ polls' = IF polls < MaxPolls THEN polls + 1 ELSE polls
       ELSE /\ wpc' = "done"
            /\ UNCHANGED polls
    /\ UNCHANGED <<busy, wop>>
    /\ UNCHANGED <<kvars, evars, gvars>>

\* wait_ready, line 68: sleep(0.05) is over
wait_sleep ==
    /\ wpc = "sleep"
    /\ wpc' = "test"
    /\ UNCHANGED <<busy, wop, polls>>
    /\ UNCHANGED <<kvars, evars, gvars>>

\* the panel raises or drops its busy line
panel_busy(level) ==
    /\ level # busy
    /\ busy' = level
    /\ UNCHANGED <<wpc, wop, polls>>
    /\ UNCHANGED <<kvars, evars, gvars>>

\* ----------------------------------------------------------------------
\* radio.py : Mpc and Engine
\* ----------------------------------------------------------------------
MENU == 22
CANCEL == 27

\* Mpc.radios: the playlist positions 1..NRadios (the station at position
\* p is named by p; 0 stands for the empty name '')
RadioKeys == 1..NRadios

\* sorted(self._mpc.radios.keys()) as the initial deque
SortedKeys == [i \in 1..NRadios |-> i]

\* deque.rotate(-1) / deque.rotate(1)
RotLeft1(dq) == IF dq = <<>> THEN dq ELSE Append(Tail(dq), Head(dq))
RotRight1(dq) ==
    IF dq = <<>> THEN dq
    ELSE <<dq[Len(dq)]>> \o SubSeq(dq, 1, Len(dq) - 1)

\* deque.rotate(n): n > 0 rotates right n steps, n < 0 left -n steps
RECURSIVE Rotate(_, _)
Rotate(dq, n) ==
    IF n = 0 THEN dq
    ELSE IF n > 0 THEN Rotate(RotRight1(dq), n - 1)
    ELSE Rotate(RotLeft1(dq), n + 1)

\* deque.count(x)
RECURSIVE QueCount(_, _)
QueCount(q, x) ==
    IF q = <<>> THEN 0
    ELSE (IF Head(q) = x THEN 1 ELSE 0) + QueCount(Tail(q), x)

\* run, lines 258 / 263, without the coalescing
SettleCount_One(q, c) == 1

\* run, lines 258 / 263: count = 1 + self._evtque.count(code)
SettleCount(q, c) == 1 + QueCount(q, c)

\* run, line 288, always committing
SelectNeeded_Always(p, cur) == TRUE

\* run, line 288: if rpos != self._mpc.current
SelectNeeded(p, cur) == p # cur

\* run, line 273, showing the cursor instead of the committed position
CancelShown_Cursor(p, cur) == p

\* run, line 273: the position shown on cancel, self._mpc.current
CancelShown(p, cur) == cur

\* the calls the loop makes, as recorded in calls
CallSelect(p) == [fn |-> "select", arg |-> <<p>>]
CallRefresh == [fn |-> "refresh", arg |-> <<>>]
CallSetRadioName(p, clr) ==
    [fn |-> "set_radio_name", arg |-> <<p, IF clr THEN 1 ELSE 0>>]
CallSetRadioNames(names) == [fn |-> "set_radio_names", arg |-> names]
CallSetTitlebar == [fn |-> "set_titlebar", arg |-> <<>>]

\* Engine._show_radio -> Screen.set_radio_name (one refresh)
show_radio(position, clr) == << CallSetRadioName(position, clr), CallRefresh >>

\* Mpc.radios, filled by Mpc.initialize: position -> station name
MpcRadios == [k \in RadioKeys |-> k]

\* the dict subscript m[k]; a key that is missing is a KeyError
KeyError == 0 - 1
Subscript(m, k) == IF k \in DOMAIN m THEN m[k] ELSE KeyError

\* Engine._select_radio, lines 226-230, with the row after the cursor
\* looked up whatever the cursor is
radionames_NoUpperGuard(m, p) ==
    << IF p > 1 /\ Subscript(m, p - 1) # 0 THEN Subscript(m, p - 1) ELSE 0,
       Subscript(m, p),
       IF Subscript(m, p + 1) # 0 THEN Subscript(m, p + 1) ELSE 0 >>

\* Engine._select_radio, lines 226-230: the three rows.  'c and m[k] or
\* ""' subscripts only if c holds, and gives "" if c fails or the name
\* found is empty.
radionames(m, p) ==
    << IF p > 1 /\ Subscript(m, p - 1) # 0 THEN Subscript(m, p - 1) ELSE 0,
       Subscript(m, p),
       IF p < Cardinality(DOMAIN m) /\ Subscript(m, p + 1) # 0
       THEN Subscript(m, p + 1) ELSE 0 >>

\* Engine._select_radio -> Screen.set_radio_names (one refresh)
select_radio(p) ==
    << CallSetRadioNames(radionames(MpcRadios, p)), CallRefresh >>

\* Screen.set_titlebar (one refresh)
set_titlebar == << CallSetTitlebar, CallRefresh >>

Codes == {CLOCKWISE, ANTICLOCKWISE, BUTTONDOWN, BUTTONUP, MENU, CANCEL}

\* run, lines 251-278: the action letter the dispatch on code assigns
\* ('N', 'P' and 'E' are the only letters assigned anywhere)
ActionOf(c) ==
    IF c = CLOCKWISE THEN "N"
    ELSE IF c = ANTICLOCKWISE THEN "P"
    ELSE IF c = BUTTONDOWN THEN "E"
    ELSE ""

\* Mpc.stop, as recorded in calls
CallStop == [fn |-> "stop", arg |-> <<>>]

\* Engine._knob_event / Engine._button_event, the set, with the callback
\* also repainting the title bar
producer_set_Redraws ==
    /\ prod = "appended"
    /\ evtsig' = TRUE
    /\ prod' = "idle"
    /\ calls' = <<CallSetTitlebar, CallRefresh>>
    /\ UNCHANGED <<evtque, pc, code, action, count, edit, clearflag, rpos,
                   radios, current, settleq, pre>>
    /\ UNCHANGED <<wvars, kvars, evars, mpcx, quiet, tick>>

\* Engine._knob_event / Engine._button_event, line 202 / 207: the append
producer_append(c) ==
    /\ prod = "idle"
    /\ ~quiet
    /\ Len(evtque) < MaxQueue
    /\ evtque' = Append(evtque, c)
    /\ prod' = "appended"
    /\ UNCHANGED <<evtsig, pc, code, action, count, edit, clearflag, rpos,
                   radios, current, calls, settleq, pre>>
    /\ UNCHANGED <<wvars, kvars, evars, mpcx, quiet, tick>>

\* Engine._knob_event / Engine._button_event, line 203 / 208: the set
producer_set ==
    /\ prod = "appended"
    /\ evtsig' = TRUE
    /\ prod' = "idle"
    /\ UNCHANGED <<evtque, pc, code, action, count, edit, clearflag, rpos,
                   radios, current, calls, settleq, pre>>
    /\ UNCHANGED <<wvars, kvars, evars, mpcx, quiet, tick>>

\* The knob and the buttons are left alone from now on: neither
\* _knob_event nor _button_event is called again
env_quiet ==
    /\ prod = "idle"
    /\ ~quiet
    /\ quiet' = TRUE
    /\ UNCHANGED <<evtque, evtsig, prod, pc, code, action, count, edit,
                   clearflag, rpos, radios, current, calls, settleq, pre,
                   mpcx, tick>>
    /\ UNCHANGED <<wvars, kvars, evars>>

\* run, lines 241-248: the wait timed out; due says whether more than 30 s
\* have passed since the clock was last painted
run_timeout(due) ==
    /\ pc = "wait"
    /\ ~evtsig
    /\ IF ~edit /\ due
       THEN /\ calls' = set_titlebar
            /\ pre' = [by |-> "timeout", edit |-> edit, rpos |-> rpos,
                       current |-> current]
            /\ tick' = (IF quiet THEN ~tick ELSE tick)
       ELSE UNCHANGED <<calls, pre, tick>>
    /\ UNCHANGED <<evtque, evtsig, prod, pc, code, action, count, edit,
                   clearflag, rpos, radios, current, settleq>>
    /\ UNCHANGED <<wvars, kvars, evars, mpcx, quiet>>

\* run, lines 241-253: the wait returned with the signal set
run_pop ==
    /\ pc = "wait"
    /\ evtsig
    /\ IF evtque = <<>>
       THEN UNCHANGED <<evtque, pc, code, action, count, calls, settleq, pre>>
       ELSE /\ code' = Head(evtque)
            /\ evtque' = Tail(evtque)
            /\ count' = 1
            /\ action' = ActionOf(Head(evtque))
            /\ pc' = IF Head(evtque) \in {CLOCKWISE, ANTICLOCKWISE}
                     THEN "settle" ELSE "act"
            /\ calls' = <<>>
            /\ settleq' = <<>>
            /\ pre' = [by |-> "pop", edit |-> edit, rpos |-> rpos,
                       current |-> current]
    /\ UNCHANGED <<evtsig, prod, edit, clearflag, rpos, radios, current>>
    /\ UNCHANGED <<wvars, kvars, evars, mpcx, quiet, tick>>

\* run, lines 257-258 / 262-263: the settle sleep is over
run_settle ==
    /\ pc = "settle"
    /\ count' = SettleCount(evtque, code)
    /\ settleq' = evtque
    /\ pc' = "act"
    /\ UNCHANGED <<evtque, evtsig, prod, code, action, edit, clearflag, rpos,
                   radios, current, calls, pre>>
    /\ UNCHANGED <<wvars, kvars, evars, mpcx, quiet, tick>>

\* Mpc.execute: no call of the player is in progress
NoExec == [cmd |-> "", arg |-> 0, issued |-> 0, texp |-> 0, out |-> 0]

\* Mpc.execute, lines 132-135: the first pass of the while loop issues
\* the call
Issue(cmd, arg) ==
    [cmd |-> cmd, arg |-> arg, issued |-> 1, texp |-> 0, out |-> 0]

\* Mpc.execute, lines 136-138, with the timeout ending the call
Reissue_GiveUp(x) == [x EXCEPT !.texp = @ + 1]

\* Mpc.execute, lines 136-138: one more TimeoutExpired caught, the same
\* call issued once more
Reissue(x) == [x EXCEPT !.texp = @ + 1, !.issued = @ + 1]

\* Mpc.select: the player is told to play position, and Mpc._current is
\* read back from it
MpcCurrentAfterSelect(position) == position

\* run, lines 264-300: the rest of the loop body for the popped code
run_act ==
    /\ pc = "act"
    /\ pre' = [by |-> IF action = "E" /\ edit /\ SelectNeeded(rpos, current)
                      THEN "select" ELSE "act",
               edit |-> edit, rpos |-> rpos, current |-> current]
    /\ IF code \notin {CLOCKWISE, ANTICLOCKWISE, BUTTONDOWN, MENU, CANCEL}
       THEN \* lines 276-278: print('?', code); continue
            /\ pc' = "continue"
            /\ calls' = <<>>
            /\ UNCHANGED <<edit, clearflag, rpos, radios, current, mpcx>>
       ELSE IF action = "S"
       THEN \* lines 279-281: self._mpc.stop(); break
            /\ calls' = <<CallStop>>
            /\ pc' = "stopped"
            /\ UNCHANGED <<edit, clearflag, rpos, radios, current, mpcx>>
       ELSE IF action = "C"
       THEN \* lines 282-284: rpos = self._mpc.current; continue
            /\ rpos' = current
            /\ calls' = <<>>
            /\ pc' = "continue"
            /\ UNCHANGED <<edit, clearflag, radios, current, mpcx>>
       ELSE IF code = CANCEL
       THEN \* lines 270-275, then 302
            /\ IF edit
               THEN /\ calls' = show_radio(CancelShown(rpos, current), TRUE)
                    /\ clearflag' = FALSE
                    /\ edit' = FALSE
               ELSE /\ calls' = <<>>
                    /\ UNCHANGED <<edit, clearflag>>
            /\ pc' = "clearq"
            /\ UNCHANGED <<rpos, radios, current, mpcx>>
       ELSE IF action = "E" /\ edit
       THEN \* lines 286-291: leave editing, commit, continue
            /\ edit' = FALSE
            /\ IF SelectNeeded(rpos, current)
               THEN \* line 289: Mpc.select starts, its first player call
                    \* is issued; lines 290-291 follow its return
                    /\ mpcx' = Issue("play", rpos)
                    /\ calls' = <<>>
                    /\ pc' = "select"
               ELSE /\ calls' = show_radio(rpos, clearflag)
                    /\ pc' = "continue"
                    /\ UNCHANGED mpcx
            /\ UNCHANGED <<clearflag, rpos, radios, current>>
       ELSE \* lines 286, 293-300, then 302
            LET nedit == IF action = "E" THEN TRUE ELSE edit
                nradios == IF action = "P" THEN Rotate(radios, count)
                           ELSE IF action = "N" THEN Rotate(radios, 0 - count)
                           ELSE radios
            IN  /\ edit' = nedit
                /\ clearflag' = IF action = "E" THEN TRUE ELSE clearflag
                /\ IF nedit
                   THEN /\ radios' = nradios
                        /\ rpos' = nradios[1]
                        /\ calls' = select_radio(nradios[1])
                   ELSE /\ calls' = <<>>
                        /\ UNCHANGED <<rpos, radios>>
                /\ pc' = "clearq"
                /\ UNCHANGED <<current, mpcx>>
    /\ UNCHANGED <<evtque, evtsig, prod, code, action, count, settleq>>
    /\ UNCHANGED <<wvars, kvars, evars, quiet, tick>>

\* Mpc.execute, lines 136-138: TimeoutExpired is caught and the while
\* loop issues the same call again at once.  The attempts the model
\* follows are capped at MaxAttempts; the code has no cap.
execute_timeout ==
    /\ pc = "select"
    /\ mpcx.issued < MaxAttempts
    /\ mpcx' = Reissue(mpcx)
    /\ UNCHANGED <<evtque, evtsig, prod, pc, code, action, count, edit,
                   clearflag, rpos, radios, current, calls, settleq, pre>>
    /\ UNCHANGED <<wvars, kvars, evars, quiet, tick>>

\* Mpc.execute, lines 134-135: check_output completed and execute returns
\* its output.  Mpc.select drops the output of 'mpc play' and goes on to
\* _load_current (lines 160-161), whose own call's output gives
\* Mpc._current (lines 167-170); then run goes on at lines 290-291.
execute_return ==
    /\ pc = "select"
    /\ IF mpcx.cmd = "play"
       THEN /\ mpcx' = Issue("load", mpcx.arg)
            /\ UNCHANGED <<pc, current, calls, pre>>
       ELSE LET out == MpcCurrentAfterSelect(mpcx.arg)
            IN  /\ mpcx' = [mpcx EXCEPT !.out = out]
                /\ current' = out
                /\ calls' = <<CallSelect(rpos)>>
                              \o show_radio(rpos, clearflag)
                /\ pre' = [pre EXCEPT !.by = "act"]
                /\ pc' = "continue"
    /\ UNCHANGED <<evtque, evtsig, prod, code, action, count, edit,
                   clearflag, rpos, radios, settleq>>
    /\ UNCHANGED <<wvars, kvars, evars, quiet, tick>>

\* Back at the top of the loop: code, action and count are dead until
\* lines 251-253 assign them again, and the record of the step is dropped.
NoStep == [by |-> "none", edit |-> FALSE, rpos |-> 0, current |-> 0]

TopOfLoop ==
    /\ pc' = "wait"
    /\ code' = 0
    /\ action' = ""
    /\ count' = 1
    /\ calls' = <<>>
    /\ settleq' = <<>>
    /\ pre' = NoStep
    /\ mpcx' = NoExec

\* run, lines 278 / 291: continue
run_continue ==
    /\ pc = "continue"
    /\ TopOfLoop
    /\ UNCHANGED <<evtque, evtsig, prod, edit, clearflag, rpos, radios,
                   current>>
    /\ UNCHANGED <<wvars, kvars, evars, quiet, tick>>

\* run, line 302: self._evtque.clear()
run_clear_queue ==
    /\ pc = "clearq"
    /\ evtque' = <<>>
    /\ pc' = "clearsig"
    /\ UNCHANGED <<evtsig, prod, code, action, count, edit, clearflag, rpos,
                   radios, current, calls, settleq, pre>>
    /\ UNCHANGED <<wvars, kvars, evars, mpcx, quiet, tick>>

\* run, line 303: self._evtsig.clear()
run_clear_signal ==
    /\ pc = "clearsig"
    /\ evtsig' = FALSE
    /\ TopOfLoop
    /\ UNCHANGED <<evtque, prod, edit, clearflag, rpos, radios, current>>
    /\ UNCHANGED <<wvars, kvars, evars, quiet, tick>>

\* ----------------------------------------------------------------------
\* Arguments the calls are exercised with
\* ----------------------------------------------------------------------
Pins == {0, 1}

\* <<x1, y1, x2, y2>>: an unaligned box, the same box with its corners
\* swapped, a box reaching beyond every edge, a degenerate box
RectArgs == { <<2, 3, 4, 12>>, <<4, 12, 2, 3>>, <<-5, 120, 300, 200>>,
              <<0, 0, 0, 0>> }
\* <<lx, ly, length, width>>: a wide stroke on the canvas edge, a thin
\* stroke inside, a stroke off the surface, a negative length
HlineArgs == { <<0, 0, 4, 4>>, <<3, 20, 5, 1>>, <<3, 200, 5, 1>>,
               <<2, 5, -4, 1>> }
VlineArgs == { <<3, 10, 6, 1>>, <<0, 128, 3, 2>>, <<300, 0, 1, 1>> }
\* <<tx, ty, tw, th>>: text inside, text running off the surface
TextArgs == { <<5, 2, 10, 6>>, <<290, 125, 10, 6>> }

\* Arguments of the packing checks: small windows, so that every byte of
\* every payload is examined
PackRectArgs == { <<2, 3, 4, 12>>, <<-5, 120, 3, 200>>, <<1, 0, 1, 9>> }
PackHlineArgs == { <<0, 0, 4, 4>>, <<3, 20, 5, 1>> }
PackTextArgs == { <<5, 2, 10, 6>>, <<-3, 125, 10, 6>> }

\* ----------------------------------------------------------------------
\* Initial state and specifications
\* ----------------------------------------------------------------------
\* RotaryEncoder.__init__
KnobInit ==
    /\ state = R_START
    /\ trace = <<>>
    /\ events = <<>>
    /\ kerr = FALSE

\* Epd.__init__
EpdInit ==
    /\ orientation \in BOOLEAN
    /\ partial_refresh = "None"
    /\ frame = NewFrame
    /\ dirty = SENTINEL
    /\ portlog = <<>>
    /\ lastcall = "new"
    /\ prevcall = "new"
    /\ txarea = <<>>
    /\ ubox = <<>>
    /\ opened = FALSE
    /\ eerr = ""
    /\ shape = <<>>

\* Engine.run up to its loop, the player being at position cur
EngineInit(cur) ==
    /\ evtque = <<>>
    /\ evtsig = FALSE
    /\ prod = "idle"
    /\ pc = "wait"
    /\ code = 0
    /\ action = ""
    /\ count = 1
    /\ edit = FALSE
    /\ clearflag = FALSE
    /\ current = cur
    /\ rpos = current
    /\ radios = SortedKeys
    /\ calls = show_radio(rpos, FALSE)
    /\ settleq = <<>>
    /\ pre = [by |-> "start", edit |-> FALSE, rpos |-> rpos,
              current |-> current]
    /\ mpcx = NoExec
    /\ quiet = FALSE
    /\ tick = FALSE

\* Mpc.initialize ends with mpc play on the freshly loaded playlist: the
\* player is at the first position.  The Epd has its port, and its font
\* path has been set (Screen.set_font).
Init ==
    /\ KnobInit
    /\ WaitInit
    /\ EpdInit
    /\ port = TRUE
    /\ fontpath = TRUE
    /\ EngineInit(1)

vars == <<kvars, evars, gvars, wvars>>

NextKnob ==
    \/ RotaryEncoderInit
    \/ \E pin_a \in Pins, pin_b \in Pins : rotary_event(pin_a, pin_b)

NextEpd ==
    \/ \E partial \in BOOLEAN : epd_init(partial)
    \/ \E black \in BOOLEAN : clear(black)
    \/ \E a \in RectArgs : rectangle(a[1], a[2], a[3], a[4], TRUE)
    \/ \E a \in HlineArgs : hline(a[1], a[2], a[3], a[4], TRUE)
    \/ \E a \in VlineArgs : vline(a[1], a[2], a[3], a[4], TRUE)
    \/ \E a \in TextArgs : text(a[1], a[2], a[3], a[4], TRUE)
    \/ \E full \in BOOLEAN : refresh(full)

\* Every public call of the Epd, the draws with one argument tuple each
NextApi ==
    \/ \E partial \in BOOLEAN : epd_init(partial)
    \/ sleep
    \/ reset
    \/ \E exists \in BOOLEAN : set_fontpath(exists)
    \/ \E black \in BOOLEAN : clear(black)
    \/ rectangle(2, 3, 4, 12, TRUE)
    \/ hline(3, 20, 5, 1, TRUE)
    \/ vline(3, 10, 6, 1, TRUE)
    \/ text(5, 2, 10, 6, TRUE)
    \/ \E full \in BOOLEAN : refresh(full)

\* An Epd right after Epd.__init__, with or without a transport port
InitApi ==
    /\ KnobInit
    /\ WaitInit
    /\ EpdInit
    /\ port \in BOOLEAN
    /\ fontpath = FALSE
    /\ EngineInit(1)

\* Canvases for the packing checks: the image is white after construction
\* and black after clear(True) and a flush.
InitPack ==
    /\ KnobInit
    /\ WaitInit
    /\ orientation \in BOOLEAN
    /\ partial_refresh = "None"
    /\ frame \in {NewFrame, [bg |-> BLACK, layers |-> <<>>]}
    /\ dirty = SENTINEL
    /\ portlog = <<>>
    /\ lastcall = "new"
    /\ prevcall = "new"
    /\ txarea = <<>>
    /\ ubox = <<>>
    /\ port = TRUE
    /\ fontpath = TRUE
    /\ opened = TRUE
    /\ eerr = ""
    /\ shape = <<>>
    /\ EngineInit(1)

NextPack ==
    \/ \E a \in PackRectArgs, black \in BOOLEAN :
          rectangle(a[1], a[2], a[3], a[4], black)
    \/ \E a \in PackHlineArgs : hline(a[1], a[2], a[3], a[4], TRUE)
    \/ \E a \in PackTextArgs, black \in BOOLEAN :
          text(a[1], a[2], a[3], a[4], black)
    \/ refresh(FALSE)

\* Screen.__init__ builds its panel as Epd(True),
\* and the loop may be entered with the player at any position
InitEngine ==
    /\ KnobInit
    /\ WaitInit
    /\ EpdInit
    /\ orientation = TRUE
    /\ port = TRUE
    /\ fontpath = TRUE
    /\ \E cur \in RadioKeys : EngineInit(cur)

\* The knob and button callbacks run on the GPIO callback thread, the
\* loop on the main thread: their steps interleave.
NextEngine ==
    \/ \E c \in Codes : producer_append(c)
    \/ producer_set
    \/ \E due \in BOOLEAN : run_timeout(due)
    \/ run_pop
    \/ run_settle
    \/ run_act
    \/ execute_timeout
    \/ execute_return
    \/ run_continue
    \/ run_clear_queue
    \/ run_clear_signal

SpecKnob == Init /\ [][NextKnob]_vars
SpecEpd == Init /\ [][NextEpd]_vars
SpecPack == InitPack /\ [][NextPack]_vars
SpecApi == InitApi /\ [][NextApi]_vars
SpecEngine == InitEngine /\ [][NextEngine]_vars

NextWait ==
    \/ \E op \in WaitingOps : wait_until_idle(op)
    \/ wait_test
    \/ wait_sleep
    \/ \E level \in BOOLEAN : panel_busy(level)

\* The thread that called wait_ready keeps running: a sample that is due
\* is taken, a sleep of 0.05 s ends.
SpecWait ==
    /\ Init
    /\ [][NextWait]_vars
    /\ WF_vars(wait_test)
    /\ WF_vars(wait_sleep)

\* The loop and a user who at some point stops touching the controls.
NextEngineLive ==
    \/ NextEngine
    \/ env_quiet

\* The main thread keeps running its loop, time passes (a wait that times
\* out often enough is at last more than 30 s after the latest repaint),
\* a callback that has appended goes on to set the signal, and the player
\* answers in the end.
SpecEngineLive ==
    /\ InitEngine
    /\ [][NextEngineLive]_vars
    /\ WF_vars(run_pop \/ run_settle \/ run_act \/ run_continue
                 \/ run_clear_queue \/ run_clear_signal)
    /\ WF_vars(run_timeout(TRUE))
    /\ WF_vars(producer_set)
    /\ WF_vars(execute_return)

\* ----------------------------------------------------------------------
\* Claims about the encoder decoder (checked under SpecKnob)
\* ----------------------------------------------------------------------
\* C1: from Start, the samples 00,10,11,01,00 invoke the callback exactly
\* once, with the clockwise event, and leave the FSM in Start; the samples
\* 00,01,11,10,00 invoke it exactly once, with the counter-clockwise
\* event, and leave the FSM in Start.
C1_CanonicalSequences ==
    /\ trace = <<0, 2, 3, 1, 0>> =>
          (events = <<CLOCKWISE>> /\ And0F(state) = R_START)
    /\ trace = <<0, 1, 3, 2, 0>> =>
          (events = <<ANTICLOCKWISE>> /\ And0F(state) = R_START)

JumpPrefix == Len(trace) >= 2 /\ trace[1] = 0 /\ trace[2] = 3

States7 == {R_START, R_CW_FINAL, R_CW_BEGIN, R_CW_NEXT,
            R_CCW_BEGIN, R_CCW_FINAL, R_CCW_NEXT}

\* C7: from Start, sample 00 followed directly by sample 11 emits no
\* event; after up to two further samples the FSM is in one of its seven
\* states; from there decoding goes on exactly as it does from Start (the
\* jump leaves nothing behind), so a complete step fed after the jump is
\* reported once; no sample sequence makes the table lookup fail.
C7_IllegalJumpRecovers ==
    /\ ~kerr
    /\ trace = <<0, 3>> => events = <<>>
    /\ (JumpPrefix /\ Len(trace) <= 4) => state \in States7
    /\ JumpPrefix =>
          LET r == Feed(R_START, <<>>, SubSeq(trace, 3, Len(trace)))
          IN  state = r.state /\ events = r.events
    /\ trace \in {<<0, 3, 1, 0, 2, 3>>, <<0, 3, 2, 0, 1, 3>>} =>
          (Len(events) = 1 /\ And0F(state) = R_START)

\* C7 witness: the jump, then one complete step, reported once
C7_Witness ==
    /\ trace = <<0, 3, 1, 0, 2, 3>>
    /\ Len(events) = 1
    /\ ~kerr

\* ----------------------------------------------------------------------
\* Claims about the display driver (checked under SpecEpd)
\* ----------------------------------------------------------------------
IsRefresh == lastcall \in {"refresh", "refresh_full"}

\* positions of the WRITE_RAM commands in the port traffic of the last call
WriteRamIdx ==
    {i \in 1..Len(portlog) : portlog[i] = send_command(WRITE_RAM)}

\* The nine port operations before position i program an address window
\* and then the address counter with that window's start.
ProgramsWindowBefore(i) ==
    /\ i > 9
    /\ portlog[i - 9] = send_command(SET_RAM_X_ADDRESS_START_END_POSITION)
    /\ portlog[i - 8].op = "data" /\ Len(portlog[i - 8].arg) = 2
    /\ portlog[i - 7] = send_command(SET_RAM_Y_ADDRESS_START_END_POSITION)
    /\ portlog[i - 6].op = "data" /\ Len(portlog[i - 6].arg) = 4
    /\ portlog[i - 5] = send_command(SET_RAM_X_ADDRESS_COUNTER)
    /\ portlog[i - 4] = send_data(<<portlog[i - 8].arg[1]>>)
    /\ portlog[i - 3] = send_command(SET_RAM_Y_ADDRESS_COUNTER)
    /\ portlog[i - 2] = send_data(SubSeq(portlog[i - 6].arg, 1, 2))
    /\ portlog[i - 1] = PortWait

\* C2: in a session initialised in partial-refresh mode, a refresh that
\* transmits anything sends exactly two WRITE_RAM payloads, identical,
\* each preceded by programming the same address window and the address
\* counter at that window's start.
C2_PartialDoubleSend ==
    (partial_refresh = "True" /\ IsRefresh /\ portlog # <<>>) =>
        /\ Cardinality(WriteRamIdx) = 2
        /\ \A i \in WriteRamIdx :
              /\ ProgramsWindowBefore(i)
              /\ i < Len(portlog)
              /\ portlog[i + 1].op = "data"
              /\ Len(portlog[i + 1].buf) = 1
              /\ BufLen(portlog[i + 1].buf[1]) > 0
        /\ \A i, j \in WriteRamIdx :
              /\ portlog[i + 1] = portlog[j + 1]
              /\ SubSeq(portlog, i - 9, i - 1) = SubSeq(portlog, j - 9, j - 1)
              /\ portlog[i - 8].arg = <<Shr3And255(txarea[1]),
                                        Shr3And255(txarea[3])>>
              /\ portlog[i - 6].arg = <<And255(txarea[2]), Shr8And255(txarea[2]),
                                        And255(txarea[4]), Shr8And255(txarea[4])>>

\* C2 witness: a partial-mode refresh has transmitted a window twice
C2_Witness ==
    /\ partial_refresh = "True"
    /\ lastcall = "refresh"
    /\ Cardinality(WriteRamIdx) = 2
    /\ txarea = <<0, 292, 15, 294>>

\* C3: a refresh(full=False) that directly follows a refresh writes no
\* command, no data and waits for nothing; so does a refresh that is the
\* first call on a freshly created canvas.
C3_SecondRefreshSilent ==
    (lastcall = "refresh" /\ prevcall \in {"refresh", "refresh_full", "new"})
        => portlog = <<>>

\* C3 witness: a refresh that transmitted is followed by a silent one
C3_Witness ==
    /\ prevcall = "refresh_full"
    /\ lastcall = "refresh"
    /\ portlog = <<>>
    /\ dirty = SENTINEL

\* C4: the dirty region equals the union of the boxes of the draws made
\* since the last flush (minimum of the starts, maximum of the ends, the
\* empty region being the identity).
C4_DirtyIsUnion == ubox # <<>> => dirty = ubox

\* C5: the window refresh transmits starts on a byte boundary and ends
\* just before one, or on the last pixel column.
C5_WindowAligned ==
    txarea # <<>> =>
        /\ txarea[1] % 8 = 0
        /\ ((txarea[3] + 1) % 8 = 0 \/ txarea[3] = WIDTH - 1)

\* C5 witness: a dirty region with unaligned columns 3..12 was transmitted
\* as the window of columns 0..15
C5_Witness ==
    /\ txarea = <<0, 292, 15, 294>>
    /\ IsRefresh

\* ----------------------------------------------------------------------
\* Claims about the packing of _build (checked under SpecPack)
\* ----------------------------------------------------------------------
\* the payload of the last refresh
TxBuf == portlog[(CHOOSE i \in WriteRamIdx : TRUE) + 1].buf[1]

Pow2(n) == IF n = 0 THEN 1 ELSE IF n = 1 THEN 2 ELSE IF n = 2 THEN 4
           ELSE IF n = 3 THEN 8 ELSE IF n = 4 THEN 16 ELSE IF n = 5 THEN 32
           ELSE IF n = 6 THEN 64 ELSE 128

\* C8: every payload byte packs 8 horizontally consecutive pixels of one
\* row, leftmost pixel in bit 7, white = 1 and black = 0, rows in ascending
\* y; 8 white pixels give 0xFF and 8 black pixels 0x00; the payload holds
\* (ye-ys+1)*(xe-xs+1)/8 bytes for the transmitted window.
C8_Packing ==
    (IsRefresh /\ txarea # <<>>) =>
        LET xs == txarea[1]
            ys == txarea[2]
            xe == txarea[3]
            ye == txarea[4]
            perRow == (xe - xs + 1) \div 8
        IN  /\ (xe - xs + 1) % 8 = 0
            /\ BufLen(TxBuf) * 8 = (ye - ys + 1) * (xe - xs + 1)
            /\ \A r \in 0..(ye - ys), c \in 0..(perRow - 1) :
                  LET byte == BufByte(TxBuf, r * perRow + c + 1)
                      White(k) ==
                          PixelAccess(frame, xs + 8 * c + k, ys + r) = WHITE
                  IN  /\ byte \in 0..255
                      /\ \A k \in 0..7 :
                            (byte \div Pow2(7 - k)) % 2 =
                                (IF White(k) THEN 1 ELSE 0)
                      /\ (\A k \in 0..7 : White(k)) => byte = 255
                      /\ (\A k \in 0..7 : ~White(k)) => byte = 0

\* C8 witness: a transmitted payload with an all-white byte, an all-black
\* byte and a byte whose leftmost pixels alone are white
C8_Witness ==
    /\ IsRefresh
    /\ txarea # <<>>
    /\ \E i \in 1..BufLen(TxBuf) : BufByte(TxBuf, i) = 255
    /\ \E i \in 1..BufLen(TxBuf) : BufByte(TxBuf, i) = 0
    /\ \E i \in 1..BufLen(TxBuf) :
          BufByte(TxBuf, i) \in {128, 192, 224, 240, 248, 252, 254}


\* ----------------------------------------------------------------------
\* Engine.run
\* ----------------------------------------------------------------------
AllSame(q, c) == \A i \in 1..Len(q) : q[i] = c

\* the position n places after p (before it for n < 0) in the ordered
\* position list, cyclically
CursorAfter(p, n) == ((p - 1 + n) % NRadios) + 1

HasSelect == \E i \in 1..Len(calls) : calls[i].fn = "select"

C9_CommitOnButton ==
    /\ (pre.by = "act" /\ code = BUTTONDOWN /\ pre.edit) =>
          /\ ~edit
          /\ rpos = pre.rpos
          /\ current = pre.rpos
          /\ calls = (IF pre.rpos # pre.current
                      THEN <<CallSelect(pre.rpos)>> ELSE <<>>)
                     \o show_radio(pre.rpos, clearflag)
    /\ HasSelect => (pre.by = "act" /\ code = BUTTONDOWN /\ pre.edit)

\* C9 witness: a button-down committed a cursor that differed from the
\* player's current position
C9_Witness ==
    /\ pre.by = "act"
    /\ code = BUTTONDOWN
    /\ pre.edit
    /\ pre.rpos # pre.current
    /\ HasSelect
    /\ ~edit

\* C10: a cancel handled while Editing returns the loop to Browsing and
\* redraws the single-selection view for the player's current position
\* without calling select; a cancel handled while Browsing changes neither
\* the mode nor the selection.
C10_Cancel ==
    (pre.by = "act" /\ code = CANCEL) =>
        /\ ~edit
        /\ ~HasSelect
        /\ current = pre.current
        /\ IF pre.edit
           THEN calls = show_radio(pre.current, TRUE)
           ELSE calls = <<>> /\ rpos = pre.rpos

\* C10 witness: a cancel handled while Editing with the cursor away from
\* the player's current position
C10_Witness ==
    /\ pre.by = "act"
    /\ code = CANCEL
    /\ pre.edit
    /\ pre.rpos # pre.current
    /\ ~edit
    /\ calls = show_radio(current, TRUE)

\* ----------------------------------------------------------------------
\* Claims about the dirty region and the drawn shapes (SpecEpd)
\* ----------------------------------------------------------------------
InCanvas(b) ==
    /\ 0 <= b[1] /\ b[1] <= b[3] /\ b[3] <= WIDTH - 1
    /\ 0 <= b[2] /\ b[2] <= b[4] /\ b[4] <= HEIGHT - 1

\* C13: after any sequence of clear, rectangle, hline, vline, text and
\* refresh calls, whenever DirtyRegion is not the empty sentinel it lies
\* inside the canvas: 0 <= xs <= xe <= WIDTH-1 and 0 <= ys <= ye <=
\* HEIGHT-1.
C13_DirtyInCanvas == dirty # SENTINEL => InCanvas(dirty)

\* C20: rectangle, hline and vline complete without error for all integer
\* arguments, and the shape they draw has ascending bounds xs <= xe and
\* ys <= ye with every coordinate inside the canvas.
C20_ShapeInCanvas ==
    lastcall \in {"rectangle", "hline", "vline"} =>
        /\ eerr = ""
        /\ shape # <<>> => InCanvas(shape)

\* C14: after every refresh that transmits a payload, DirtyRegion equals
\* the empty sentinel, whatever draws preceded it and whichever refresh
\* mode the session uses.
C14_FlushResetsDirty ==
    (IsRefresh /\ txarea # <<>>) => dirty = <<WIDTH, HEIGHT, 0, 0>>

\* C14 witness: a partial-mode refresh that transmitted after a draw
C14_Witness ==
    /\ IsRefresh
    /\ txarea # <<>>
    /\ partial_refresh = "True"
    /\ prevcall \in {"rectangle", "hline", "vline", "text"}
    /\ dirty = <<WIDTH, HEIGHT, 0, 0>>

\* C15: in a session initialised in full-refresh mode, every refresh
\* sends at most one WRITE_RAM payload: the window and the data are never
\* transmitted a second time.
C15_FullModeSendsOnce ==
    (IsRefresh /\ partial_refresh = "False") =>
        /\ Cardinality(WriteRamIdx) <= 1
        /\ Cardinality({i \in 1..Len(portlog) : portlog[i] =
               send_command(SET_RAM_X_ADDRESS_START_END_POSITION)}) <= 1
        /\ Cardinality({i \in 1..Len(portlog) : portlog[i].buf # <<>>}) <= 1

\* C15 witness: a full-mode refresh that transmitted its one payload
C15_Witness ==
    /\ IsRefresh
    /\ partial_refresh = "False"
    /\ txarea # <<>>
    /\ Cardinality(WriteRamIdx) = 1

\* ----------------------------------------------------------------------
\* Claims about errors and the session mode (SpecApi)
\* ----------------------------------------------------------------------
\* C17: if no transport port is available, init fails with an error
\* before the port is opened or reset and before any command or data byte
\* is written, and the session's refresh mode stays unset.
C17_NoPortInitFails ==
    /\ (lastcall = "init" /\ ~port) => (eerr = "IOError" /\ portlog = <<>>)
    /\ ~port => (partial_refresh = "None" /\ ~opened)

\* C17 witness: init has failed on an Epd without a port after draws
C17_Witness ==
    /\ lastcall = "init"
    /\ ~port
    /\ eerr = "IOError"
    /\ dirty # SENTINEL

\* C18: when the font resource is missing (set_fontpath given a file
\* that does not exist, or text needing a font while no font path is set)
\* the call fails with an error, attempts no panel I/O and leaves the
\* canvas and the dirty region unchanged; when the failing set_fontpath
\* is the first call on the Epd (Engine construction, Screen.set_font)
\* the port has not been opened.
C18_MissingFontFails ==
    /\ []((prevcall = "new" /\ lastcall = "set_fontpath"
             /\ eerr = "ValueError") =>
              (/\ ~opened
               /\ portlog = <<>>
               /\ frame = NewFrame
               /\ dirty = <<WIDTH, HEIGHT, 0, 0>>
               /\ partial_refresh = "None"))
    /\ [][((lastcall' = "text" /\ ~fontpath)
             \/ (lastcall' = "set_fontpath" /\ ~fontpath')) =>
              (/\ eerr' \in {"ValueError", "RuntimeError"}
               /\ portlog' = <<>>
               /\ frame' = frame
               /\ dirty' = dirty
               /\ opened' = opened
               /\ fontpath' = fontpath)]_vars

\* C18 witness: set_fontpath failed as the first call on the Epd
C18_Witness ==
    /\ prevcall = "new"
    /\ lastcall = "set_fontpath"
    /\ eerr = "ValueError"
    /\ ~fontpath

\* C19: the session's refresh mode is set only by init: no clear,
\* rectangle, hline, vline, text, refresh, sleep or reset call changes it,
\* and a refresh transmits once or twice according to that mode.
C19_ModeSetOnlyByInit ==
    /\ [][partial_refresh' # partial_refresh => lastcall' = "init"]_vars
    /\ []((IsRefresh /\ txarea # <<>>) =>
              Cardinality(WriteRamIdx) =
                  (IF partial_refresh = "True" THEN 2 ELSE 1))

\* C19 witness: a partial-mode refresh transmitting twice after a sleep
C19_Witness ==
    /\ IsRefresh
    /\ prevcall = "sleep"
    /\ txarea # <<>>
    /\ partial_refresh = "True"
    /\ Cardinality(WriteRamIdx) = 2

\* C12: events are handled in arrival order and none is removed from the
\* queue without being handled: every step that shortens the queue is the
\* loop taking the oldest entry as the code it handles next.
C12_ArrivalOrder ==
    [][Len(evtque') < Len(evtque) =>
           /\ evtque' = Tail(evtque)
           /\ code' = Head(evtque)
           /\ pc' \in {"settle", "act"}]_vars

\* C16: Mpc.execute issues the same player call again after every
\* timeout: a call in progress or just returned has been issued once more
\* than it timed out; while it is in progress the only thing execute does
\* is to issue it again, the loop's own variables stay as they are, and
\* the loop goes on only through a completion, whose output execute
\* returns (Mpc._current is the position that output reports).
C16_ExecuteRetries ==
    /\ [](mpcx.cmd # "" => mpcx.issued = mpcx.texp + 1)
    /\ [](pc = "select" <=> (mpcx.cmd # "" /\ mpcx.out = 0))
    /\ [][pc = "select" =>
            \/ /\ pc' = "select"
               /\ mpcx' = mpcx
               /\ UNCHANGED <<code, action, count, edit, clearflag, rpos,
                              radios, current, calls, pre>>
            \/ /\ pc' = "select"
               /\ mpcx' = [mpcx EXCEPT !.texp = @ + 1, !.issued = @ + 1]
               /\ UNCHANGED <<evtque, evtsig, prod, code, action, count,
                              edit, clearflag, rpos, radios, current, calls,
                              pre>>
            \/ /\ pc' = "select"
               /\ mpcx.cmd = "play"
               /\ mpcx' = [cmd |-> "load", arg |-> mpcx.arg, issued |-> 1,
                           texp |-> 0, out |-> 0]
               /\ UNCHANGED <<evtque, evtsig, prod, edit, rpos, current>>
            \/ /\ pc' = "continue"
               /\ mpcx.cmd = "load"
               /\ mpcx'.issued = mpcx.issued
               /\ mpcx'.texp = mpcx.texp
               /\ mpcx'.out = mpcx.arg
               /\ current' = mpcx'.out
               /\ UNCHANGED <<evtque, evtsig, prod, edit, rpos>>]_vars

\* C16 witness: Mpc.select returned after its last call timed out
\* MaxAttempts - 1 times in a row and then completed
C16_Witness ==
    /\ pc = "continue"
    /\ HasSelect
    /\ mpcx.cmd = "load"
    /\ mpcx.texp = MaxAttempts - 1
    /\ mpcx.issued = MaxAttempts
    /\ mpcx.out = current

\* C11: from every Browsing state in which the loop waits, the queue is
\* empty and no further event arrives, the clock is repainted again.
C11_ClockRepaints ==
    \A b \in BOOLEAN :
        (quiet /\ ~edit /\ pc = "wait" /\ evtque = <<>> /\ tick = b)
            ~> (tick # b)

\* C25: the transition table is total over 7 states x 4 samples, every
\* entry with its direction flag masked off is again one of the 7 states,
\* and after any sample sequence rotary_event has looked up no row or
\* column outside the table.
C25_TableTotal ==
    /\ DOMAIN STATE_TAB = 1..7
    /\ \A r \in DOMAIN STATE_TAB :
          /\ DOMAIN STATE_TAB[r] = 1..4
          /\ \A c \in DOMAIN STATE_TAB[r] :
                And0F(STATE_TAB[r][c]) \in States7
    /\ ~kerr
    /\ And0F(state) \in States7

\* C25 witness: a sample was looked up from a stored state that carried a
\* direction flag, and the sequence went on to the last sample
C25_Witness ==
    /\ ~kerr
    /\ Len(trace) = MaxSamples
    /\ events # <<>>
    /\ And30(state) = 0

\* C26 as stated: whenever rotary_event has returned, the stored state is
\* one of the 7 state values with no direction-flag bit set.
C26_StoredStateNoFlag == state \in States7

\* C26, amended: rotary_event stores the table entry as it is, direction
\* flag included; the stored state carries a flag exactly when that call
\* reported a step, and it is then Start with the flag; the flag is masked
\* off only by the next lookup.
C26_FlagKeptUntilNextSample ==
    /\ [](state \in States7 \cup {R_START + DIR_CW, R_START + DIR_CCW})
    /\ [][(trace' # trace /\ trace' # <<>> /\ ~kerr') =>
            /\ state' = STATE_TAB[(state % 16) + 1][trace'[Len(trace')] + 1]
            /\ (events' # events) <=> (And30(state') # 0)]_vars

\* C26 witness: rotary_event reported a step and returned with the flag
\* still in the stored state
C26_Witness ==
    /\ events # <<>>
    /\ state = R_START + DIR_CW

\* C30: when the transition taken carries DIR_CW the callback has been
\* invoked with CLOCKWISE, when it carries DIR_CCW with ANTICLOCKWISE.
C30_EventMatchesFlag ==
    /\ And30(state) = DIR_CW =>
          (events # <<>> /\ events[Len(events)] = CLOCKWISE)
    /\ And30(state) = DIR_CCW =>
          (events # <<>> /\ events[Len(events)] = ANTICLOCKWISE)

\* a refresh() call (not a full one) is the step being taken
RefreshStep == lastcall' = "refresh" /\ prevcall' = lastcall

\* C23: for every non-empty dirty region inside the canvas, the window a
\* refresh transmits contains it: window.xs <= dirty.xs, window.xe >=
\* dirty.xe, window.ys <= dirty.ys and window.ye >= dirty.ye.
C23_WindowContainsDirty ==
    [][(RefreshStep /\ InCanvas(dirty) /\ txarea' # <<>>) =>
           /\ txarea'[1] <= dirty[1]
           /\ txarea'[2] <= dirty[2]
           /\ txarea'[3] >= dirty[3]
           /\ txarea'[4] >= dirty[4]]_vars

\* C24: whenever the dirty region is a non-empty inclusive box inside the
\* canvas when refresh is called, refresh programs the address window,
\* transmits a payload and commits.
C24_NonEmptyTransmits ==
    [][(RefreshStep /\ InCanvas(dirty)) =>
           /\ txarea' # <<>>
           /\ \E i \in DOMAIN portlog' :
                 portlog'[i] =
                     send_command(SET_RAM_X_ADDRESS_START_END_POSITION)
           /\ \E i \in DOMAIN portlog' : portlog'[i].buf # <<>>
           /\ \E i \in DOMAIN portlog' :
                 portlog'[i] = send_command(MASTER_ACTIVATION)]_vars

\* the command bytes of a port log, in the order written
RECURSIVE CommandsOf(_)
CommandsOf(log) ==
    IF log = <<>> THEN <<>>
    ELSE (IF Head(log).op = "cmd" THEN Head(log).arg ELSE <<>>)
         \o CommandsOf(Tail(log))

\* C29: init opens the port, resets the panel, then writes driver output
\* control, booster soft start, VCOM, dummy line period, gate time, data
\* entry mode and last the LUT; no command precedes the reset, every
\* command is followed by its data before the next command, and the
\* 30-byte LUT is the partial-update table if and only if partial refresh
\* was requested.
C29_InitOrder ==
    (lastcall = "init" /\ eerr = "") =>
        /\ Len(portlog) = 16
        /\ portlog[1] = PortOpen
        /\ portlog[2] = PortReset
        /\ CommandsOf(portlog) =
              <<DRIVER_OUTPUT_CONTROL, BOOSTER_SOFT_START_CONTROL,
                WRITE_VCOM_REGISTER, SET_DUMMY_LINE_PERIOD, SET_GATE_TIME,
                DATA_ENTRY_MODE_SETTING, WRITE_LUT_REGISTER>>
        /\ \A i \in 3..Len(portlog) :
              portlog[i].op = (IF i % 2 = 1 THEN "cmd" ELSE "data")
        /\ \A i \in 3..Len(portlog) :
              portlog[i].op = "data" => portlog[i].arg # <<>>
        /\ Len(portlog[16].arg) = 30
        /\ portlog[16].arg = (IF partial_refresh = "True"
                              THEN LUT_PARTIAL_UPDATE ELSE LUT_FULL_UPDATE)
        /\ partial_refresh \in {"True", "False"}
        /\ LUT_PARTIAL_UPDATE # LUT_FULL_UPDATE

\* C29 witness: an init that requested partial refresh, after an init
\* that did not
C29_Witness ==
    /\ lastcall = "init"
    /\ prevcall = "init"
    /\ eerr = ""
    /\ partial_refresh = "True"
    /\ portlog[16] = send_data(LUT_PARTIAL_UPDATE)

\* The panel read as two memory planes that alternate on every commit:
\* the payloads the planes hold after the port traffic log, cur being the
\* plane written first.  A WRITE_RAM payload goes to the plane being
\* written, MASTER_ACTIVATION commits and swaps the planes.
RECURSIVE PlanesAfter(_, _, _)
PlanesAfter(log, cur, planes) ==
    IF log = <<>> THEN planes
    ELSE IF Head(log) = send_command(MASTER_ACTIVATION)
    THEN PlanesAfter(Tail(log), 3 - cur, planes)
    ELSE IF Head(log).op = "data" /\ Head(log).buf # <<>>
    THEN PlanesAfter(Tail(log), cur,
                     [planes EXCEPT ![cur] = Head(log).buf[1]])
    ELSE PlanesAfter(Tail(log), cur, planes)

\* C27: in a partial-mode session, when a refresh that transmitted
\* returns, both planes hold the same content over the transmitted
\* window, written at that window, and it is the packed bytes of the
\* canvas over that window.
C27_PlanesAgree ==
    (partial_refresh = "True" /\ IsRefresh /\ txarea # <<>>) =>
        \A first \in {1, 2} :
            LET planes == PlanesAfter(portlog, first, <<NoBuf, NoBuf>>)
                perRow == (txarea[3] - txarea[1] + 1) \div 8
                nrows == txarea[4] - txarea[2] + 1
            IN  /\ planes[1] = planes[2]
                /\ planes[1] # NoBuf
                /\ \A i \in WriteRamIdx : ProgramsWindowBefore(i)
                /\ \A i \in WriteRamIdx :
                      portlog[i - 8].arg = <<Shr3And255(txarea[1]),
                                            Shr3And255(txarea[3])>>
                /\ planes[1].frm = frame
                /\ planes[1].xs = txarea[1]
                /\ planes[1].ys = txarea[2]
                /\ planes[1].cols = perRow
                /\ planes[1].rows = nrows
                /\ \A i \in {1, perRow * nrows} :
                      BufByte(planes[1], i) =
                          Reduce(Bits8(frame,
                                       txarea[1] + 8 * ((i - 1) % perRow),
                                       txarea[2] + ((i - 1) \div perRow)))

\* C27 witness: a partial-mode refresh after an earlier flush and a new
\* draw has written the same payload to both planes
C27_Witness ==
    /\ partial_refresh = "True"
    /\ lastcall = "refresh"
    /\ prevcall = "hline"
    /\ txarea # <<>>
    /\ frame.layers # <<>>
    /\ PlanesAfter(portlog, 1, <<NoBuf, NoBuf>>)[2].frm = frame

\* C22: there is an input event on which the loop takes the stop action,
\* and a loop that has terminated took the stop action and called the
\* player's stop() exactly once.
C22_StopEventExists ==
    /\ \E c \in Codes : ActionOf(c) = "S"
    /\ pc = "stopped" => (action = "S" /\ calls = <<CallStop>>)

\* the loop's own variables, the Screen / Mpc calls made and the player
LoopOwned ==
    <<pc, code, action, count, edit, clearflag, rpos, radios, current,
      calls, settleq, pre, mpcx>>

\* C28: under any interleaving with the loop, a step of a producer
\* callback changes only the event queue and the wake signal: the canvas,
\* the dirty region, the display session and its port, the cursor and the
\* player are left as they are, and every call on the screen or the
\* player is made by a step of the loop.
C28_ProducersTouchQueueOnly ==
    /\ [][prod' # prod =>
            /\ UNCHANGED <<evars, LoopOwned>>
            /\ \/ evtque' = evtque /\ evtsig'
               \/ evtsig' = evtsig /\ Len(evtque') = Len(evtque) + 1
                  /\ SubSeq(evtque', 1, Len(evtque)) = evtque]_vars
    /\ [][LoopOwned' # LoopOwned => prod' = prod]_vars

\* C28 witness: a callback has appended and not yet set the signal while
\* the loop is inside Mpc.select
C28_Witness ==
    /\ prod = "appended"
    /\ pc = "select"
    /\ mpcx.texp > 0
    /\ evtque # <<>>

\* the port traffic of the operations that wait for the panel
OpTraffic(op) ==
    IF op = "sleep" THEN <<send_command(DEEP_SLEEP_MODE), PortWait>>
    ELSE IF op = "set_memory_pointer" THEN set_memory_pointer(0, 0)
    ELSE display_frame

Waiting == wpc \in {"test", "sleep"}

\* C21: wait_ready returns only on a sample that found the busy line
\* clear; it never returns while the line stays asserted, and it returns
\* if the line clears and stays clear; sleep, the address-counter
\* programming and the commit sequence end with that wait and so do not
\* return before it does.
C21_WaitReady ==
    /\ [][(wpc # "done" /\ wpc' = "done") => (wpc = "test" /\ ~busy)]_vars
    /\ [][Waiting => wop' = wop]_vars
    /\ [](Waiting => wop \in WaitingOps)
    /\ \A op \in WaitingOps :
          /\ OpTraffic(op)[Len(OpTraffic(op))] = PortWait
          /\ Cardinality({i \in DOMAIN OpTraffic(op) :
                              OpTraffic(op)[i] = PortWait}) = 1
    /\ []((Waiting /\ []busy) => [](wpc # "done"))
    /\ []((Waiting /\ []~busy) => <>(wpc = "done"))

\* C21 witness: the commit sequence's wait returned after finding the
\* line busy three times
C21_Witness ==
    /\ wpc = "done"
    /\ wop = "display_frame"
    /\ polls = 3
    /\ ~busy

\* ----------------------------------------------------------------------
\* Claims about the queue and its wake signal (checked under SpecEngine)
\* ----------------------------------------------------------------------
\* C31: no wake-up is lost.  Whenever the loop is in its wait (line 241)
\* with events in the queue and no callback between its append and its
\* set, the signal is set: the wait returns at once and the queued event
\* is handled without any later event having to arrive.
C31_NoLostWakeup ==
    (pc = "wait" /\ evtque # <<>> /\ prod = "idle") => evtsig

\* ----------------------------------------------------------------------
\* Claims about the cursor (checked under SpecEngine)
\* ----------------------------------------------------------------------
\* C32: at every step that takes the loop from Browsing to Editing the
\* cursor is the committed selection, the player's current position, so
\* that the commit test of line 288 is false right after the entry and a
\* second button-down without a rotation in between calls no select.
C32_EntryAtCommitted ==
    [][(~edit /\ edit') =>
           (rpos' = current' /\ ~SelectNeeded(rpos', current'))]_vars

\* ----------------------------------------------------------------------
\* Claims about contact bounce (checked under SpecKnob)
\* ----------------------------------------------------------------------
\* The states the decoder goes through on a sample sequence, flags
\* masked: the state it starts in, then the state after each sample.
RECURSIVE StatesOf(_, _)
StatesOf(st, seq) ==
    IF seq = <<>> THEN <<And0F(st)>>
    ELSE <<And0F(st)>> \o StatesOf(TabLookup(st, Head(seq)), Tail(seq))

SampleCodes == {trace[i] : i \in 1..Len(trace)}

\* The states of one direction, as <<begin, next, final>>
CwPath == <<R_CW_BEGIN, R_CW_NEXT, R_CW_FINAL>>
CcwPath == <<R_CCW_BEGIN, R_CCW_NEXT, R_CCW_FINAL>>

\* hist ends a traversal of path: after its last visit to Start the
\* decoder entered begin, stayed among begin, next and final, went
\* through next and stands in final.
Traversed(hist, path) ==
    \E s \in 1..Len(hist) :
        /\ hist[s] = R_START
        /\ \A i \in (s + 1)..Len(hist) :
               hist[i] \in {path[1], path[2], path[3]}
        /\ s + 3 <= Len(hist)
        /\ hist[s + 1] = path[1]
        /\ hist[Len(hist)] = path[3]
        /\ \E j \in (s + 2)..(Len(hist) - 1) : hist[j] = path[2]

CommitIdx ==
    {i \in 1..Len(portlog) :
        /\ i + 4 <= Len(portlog)
        /\ portlog[i] = send_command(DISPLAY_UPDATE_CONTROL_2)
        /\ portlog[i + 1] = send_data(<<196>>)
        /\ portlog[i + 2] = send_command(MASTER_ACTIVATION)
        /\ portlog[i + 3] = send_command(TERMINATE_FRAME_READ_WRITE)
        /\ portlog[i + 4] = PortWait}

\* positions of the commands of the commit sequence, wherever they are
CommitCmdIdx ==
    {i \in 1..Len(portlog) :
        portlog[i] \in {send_command(DISPLAY_UPDATE_CONTROL_2),
                        send_command(MASTER_ACTIVATION),
                        send_command(TERMINATE_FRAME_READ_WRITE)}}

\* C34: a refresh that transmits issues the commit sequence exactly once
\* (DISPLAY_UPDATE_CONTROL_2 with data 0xC4, MASTER_ACTIVATION,
\* TERMINATE_FRAME_READ_WRITE, then a busy wait), directly after the first
\* payload; in partial mode the second payload comes after it, in the
\* other modes nothing does.  A refresh that transmits nothing issues none
\* of the commit commands.
C34_CommitOnce ==
    IsRefresh =>
        IF WriteRamIdx = {}
        THEN CommitCmdIdx = {} /\ CommitIdx = {}
        ELSE /\ Cardinality(CommitIdx) = 1
             /\ Cardinality(CommitCmdIdx) = 3
             /\ \A c \in CommitIdx :
                   /\ c - 2 \in WriteRamIdx
                   /\ portlog[c - 1].buf # <<>>
                   /\ \A w \in WriteRamIdx : w >= c - 2
                   /\ IF partial_refresh = "True"
                      THEN \E w \in WriteRamIdx :
                               /\ w > c + 4
                               /\ w + 1 = Len(portlog)
                               /\ portlog[w + 1] = portlog[c - 1]
                      ELSE c + 4 = Len(portlog)

\* C34 witness: a partial-mode refresh has committed between its two
\* payloads
C34_Witness ==
    /\ lastcall = "refresh"
    /\ partial_refresh = "True"
    /\ Cardinality(WriteRamIdx) = 2
    /\ \E c \in CommitIdx : \E w1, w2 \in WriteRamIdx : w1 < c /\ c < w2

\* ----------------------------------------------------------------------
\* Claims about the Editing window (checked under SpecEngine)
\* ----------------------------------------------------------------------
\* one position forward or backward in 1..NRadios, wrapping at the ends
StepCyclic(p, fwd) ==
    IF fwd THEN (IF p = NRadios THEN 1 ELSE p + 1)
    ELSE (IF p = 1 THEN NRadios ELSE p - 1)

RECURSIVE StepsCyclic(_, _, _)
StepsCyclic(p, fwd, n) ==
    IF n = 0 THEN p ELSE StepsCyclic(StepCyclic(p, fwd), fwd, n - 1)

\* C35: the cursor is always a key of the player's position mapping.
\* With the keys 1..NRadios, the three rows of every Editing window are
\* built without a failed lookup: the middle row is the station at the
\* cursor, the previous row is empty exactly when the cursor is 1 and is
\* the station before the cursor otherwise, the next row is empty exactly
\* when the cursor is NRadios and is the station after the cursor
\* otherwise.  A rotation handled while Editing moves the cursor count
\* positions, from NRadios on to 1 and from 1 back to NRadios.
C35_WindowInPlaylist ==
    /\ DOMAIN MpcRadios = 1..NRadios
    /\ rpos \in DOMAIN MpcRadios
    /\ \A i \in 1..Len(calls) :
          calls[i].fn = "set_radio_names" =>
              LET row == calls[i].arg
              IN  /\ Len(row) = 3
                  /\ \A j \in 1..3 : row[j] # KeyError
                  /\ row[2] = MpcRadios[rpos]
                  /\ (row[1] = 0) <=> (rpos = 1)
                  /\ rpos > 1 => row[1] = MpcRadios[rpos - 1]
                  /\ (row[3] = 0) <=> (rpos = NRadios)
                  /\ rpos < NRadios => row[3] = MpcRadios[rpos + 1]
    /\ (pre.by = "act" /\ pre.edit /\ code \in {CLOCKWISE, ANTICLOCKWISE}) =>
          rpos = StepsCyclic(pre.rpos, code = CLOCKWISE, count)

\* C35 witness: a rotation backward from position 1 has wrapped to the
\* last position, and the window drawn there has an empty next row
C35_Witness ==
    /\ pre.by = "act"
    /\ pre.edit
    /\ code = ANTICLOCKWISE
    /\ count = 1
    /\ pre.rpos = 1
    /\ rpos = NRadios
    /\ \E i \in 1..Len(calls) :
          /\ calls[i].fn = "set_radio_names"
          /\ calls[i].arg[1] = MpcRadios[NRadios - 1]
          /\ calls[i].arg[3] = 0
====
